---- MODULE Spec2Model ----
(***************************************************************************)
(* A model of package retry (github.com/connerdouglass/go-retry):          *)
(* the control loop of Run (retry.go), the classification of errors       *)
(* (retryerr.go, errors.go) and the delay strategies (delay.go).           *)
(*                                                                         *)
(* Error values are sequences of strings: the nil error is << >>, a plain  *)
(* error is <<name>>, and RetryErr(e) is <<"*retryableErr">> \o e, so the   *)
(* wrapper and the error it wraps are different values.                    *)
(***************************************************************************)
EXTENDS Integers, Sequences, FiniteSets, TLC

\* ------------------------------------------------------------- bounds
\* Largest finite retry limit a run is started with.
MaxLimit == 3
\* Largest base duration a delay strategy is built with.
MaxBase == 9
\* Number of calls made on one Fibonacci instance in SpecFib.
MaxFibCalls == 12
\* The operation stops returning retryable errors after this many retries
\* (caps the runs with an unlimited budget).
MaxIter == MaxLimit + 2

\* ------------------------------------------------------- error values
Nil == << >>

\* errors.go: var ErrTooManyRetries = errors.New("exceeded retry limit")
ErrTooManyRetries == <<"exceeded retry limit">>

\* retryerr.go: func RetryErr(err error) error { return &retryableErr{err} }
RetryErr(err) == <<"*retryableErr">> \o err

\* The err field of a *retryableErr (retry.go line 81: err.err).
WrappedErr(e) == Tail(e)

\* The type assertion err.(*retryableErr) (retry.go lines 79 and 91).
IsRetryableErrType(e) == e # Nil /\ Head(e) = "*retryableErr"

\* Variant: every non-nil error counts as retryable.
isErrRetryableNoCheck(err) == err # Nil

\* retry.go: func isErrRetryable(err error) bool
isErrRetryable(err) ==
    IF err = Nil THEN FALSE ELSE IsRetryableErrType(err)

\* Errors the operation builds itself.
PlainErrs == {<<"e1">>, <<"e2">>}

\* The reasons a context can be done with (ctx.Err()).
CtxReasons == {<<"context canceled">>, <<"context deadline exceeded">>}

\* --------------------------------------------------- delay strategies
\* A strategy is the closure a constructor of delay.go returns; kind names
\* the constructor and base its argument.
Constant(d) == [kind |-> "Constant", base |-> d]
NoDelay == Constant(0)
Linear(base) == [kind |-> "Linear", base |-> base]
Fibonacci(base) == [kind |-> "Fibonacci", base |-> base]

\* The closure fib of Fibonacci: its result for a call with this iteration
\* when the captured variables are bp (beforePrevious) and p (previous).
fibResult(it, bp, p) == IF it <= 2 THEN 1 ELSE bp + p

\* Variant: the captured variables start over at iterations 1 and 2.
fibStateRestarts(it, bp, p) == IF it <= 2 THEN <<1, 1>> ELSE <<p, bp + p>>

\* Variant: beforePrevious is not advanced.
fibStateStuck(it, bp, p) == IF it <= 2 THEN <<bp, p>> ELSE <<bp, bp + p>>

\* The captured variables <<beforePrevious, previous>> after that call.
fibState(it, bp, p) == IF it <= 2 THEN <<bp, p>> ELSE <<p, bp + p>>

\* delay(iteration) for a strategy s whose captured variables are bp, p.
DelayValue(s, it, bp, p) ==
    CASE s.kind = "Constant" -> s.base
      [] s.kind = "Linear" -> s.base * it
      [] s.kind = "Fibonacci" -> s.base * fibResult(it, bp, p)

DelayState(s, it, bp, p) ==
    IF s.kind = "Fibonacci" THEN fibState(it, bp, p) ELSE <<bp, p>>

\* -------------------------------------------------------------- state
VARIABLES
    retryLimit,      \* Run's parameter retryLimit
    delay,           \* Run's parameter delay
    ctxArg,          \* the ctx argument Run was called with
    fnKind,          \* Run's parameter fn: "any" or "failing"
    ctx,             \* Run's variable ctx: "nil", "Background" or "user"
    ctxErr,          \* the caller's context: Nil while live, else its reason
    lastError,       \* Run's variable lastError
    iteration,       \* Run's loop variable
    sleepDuration,   \* Run's variable sleepDuration
    timerFired,      \* the channel of time.After(sleepDuration) holds a value
    woken,           \* the case that woke a blocked select: "none", "done", "timer"
    beforePrevious,  \* captured by the Fibonacci closure
    previous,        \* captured by the Fibonacci closure
    pc,              \* the position of Run
    ret,             \* the value Run returned
    retFrom,         \* the return statement taken: "none", "cancel", "result", "exhaust"
    log,             \* the calls of fn and of delay, in order
    fnCtx,           \* the contexts fn was called with
    lastRes,         \* what the most recent call of fn returned
    allRetryable,    \* every call of fn so far returned a retryable error
    priorLog,        \* the log of the earlier run that used the same delay, if any
    runs             \* the local variables of the calls of Run made concurrently

vars == <<retryLimit, delay, ctxArg, fnKind, ctx, ctxErr, lastError, iteration,
          sleepDuration, timerFired, woken, beforePrevious, previous,
          pc, ret, retFrom, log, fnCtx, lastRes, allRetryable, priorLog, runs>>

\* What a call of Run is given, and what preceded it.
params == <<retryLimit, delay, ctxArg, fnKind, priorLog, runs>>
fibVars == <<beforePrevious, previous>>

Limits == (-2) .. MaxLimit
Delays == {NoDelay, Constant(MaxBase), Linear(2), Fibonacci(1), Fibonacci(3)}

FnEvent(it) == [ev |-> "fn", arg |-> it, d |-> 0]
DelayEvent(it, d) == [ev |-> "delay", arg |-> it, d |-> d]

\* log holds the events of the first MaxIter + 1 attempts; a run of an fn of
\* kind "any" makes no more.
LogCap == 2 * MaxIter + 1
LogAppend(l, e) == IF Len(l) < LogCap THEN Append(l, e) ELSE l

\* Variant: continue does not advance the loop variable.
NextIterationStuck(it) == it

\* retry.go line 46: iteration++.  The iterations from MaxIter on are
\* identified, which keeps the runs of a "failing" fn with an unlimited
\* budget in finitely many states.
NextIteration(it) == IF it < MaxIter THEN it + 1 ELSE it

\* ctx.Done() is ready to receive from.
CtxDone == ctx = "user" /\ ctxErr # Nil
\* ctx.Err()
CtxErrValue == IF ctx = "user" THEN ctxErr ELSE Nil

Calls == Cardinality({k \in 1 .. Len(log) : log[k].ev = "fn"})
Consults == Cardinality({k \in 1 .. Len(log) : log[k].ev = "delay"})

Init ==
    /\ retryLimit \in Limits
    /\ delay \in Delays
    /\ ctxArg \in {"nil", "user"}
    /\ fnKind = "any"
    /\ ctx = ctxArg
    /\ ctxErr = Nil
    /\ lastError = Nil
    /\ iteration = 0
    /\ sleepDuration = 0
    /\ timerFired = FALSE
    /\ woken = "none"
    /\ beforePrevious = 1
    /\ previous = 1
    /\ pc = "start"
    /\ ret = Nil
    /\ retFrom = "none"
    /\ log = << >>
    /\ fnCtx = {}
    /\ lastRes = Nil
    /\ allRetryable = TRUE
    /\ priorLog = << >>
    /\ runs = << >>


\* ------------------------------------------------------ the caller's token
\* The caller's context is cancelled or reaches its deadline.  A select that
\* is blocked with no case chosen yet is woken by the close of ctx.Done().
Cancel ==
    /\ ctxArg = "user"
    /\ ctxErr = Nil
    /\ pc # "done"
    /\ \E reason \in CtxReasons : ctxErr' = reason
    /\ woken' = IF pc = "parked" /\ woken = "none" THEN "done" ELSE woken
    /\ UNCHANGED <<params, ctx, lastError, iteration, sleepDuration, timerFired,
                   fibVars, pc, ret, retFrom, log, fnCtx, lastRes, allRetryable>>

\* The timer of time.After(sleepDuration) expires and sends on its channel.
TimerFire ==
    /\ pc \in {"select", "parked"}
    /\ ~timerFired
    /\ timerFired' = TRUE
    /\ woken' = IF pc = "parked" /\ woken = "none" THEN "timer" ELSE woken
    /\ UNCHANGED <<params, ctx, ctxErr, lastError, iteration, sleepDuration,
                   fibVars, pc, ret, retFrom, log, fnCtx, lastRes, allRetryable>>

\* ---------------------------------------------------------------- Run
\* Variant: a nil context is kept.
CtxOrBackgroundKeep(c) == c

\* retry.go lines 38-40: if ctx == nil { ctx = context.Background() }
CtxOrBackground(c) == IF c = "nil" THEN "Background" ELSE c

\* retry.go lines 36-46: the substitution of ctx, var lastError, iteration := 0.
Enter ==
    /\ pc = "start"
    /\ ctx' = CtxOrBackground(ctx)
    /\ lastError' = Nil
    /\ iteration' = 0
    /\ pc' = "cond"
    /\ UNCHANGED <<params, ctxErr, sleepDuration, timerFired, woken, fibVars,
                   ret, retFrom, log, fnCtx, lastRes, allRetryable>>

\* Variant: a negative limit is not treated as unlimited.
LoopTestNoForever(it, limit) == it <= limit

\* Variant: the limit counts attempts, not retries.
LoopTestStrict(it, limit) == limit < 0 \/ it < limit

\* retry.go line 46: retryLimit < 0 || Limit(iteration) <= retryLimit
LoopTest(it, limit) == limit < 0 \/ it <= limit

\* retry.go line 46: the condition of the for statement.
LoopCond ==
    /\ pc = "cond"
    /\ pc' = IF LoopTest(iteration, retryLimit) THEN "body" ELSE "exhausted"
    /\ UNCHANGED <<params, ctx, ctxErr, lastError, iteration, sleepDuration,
                   timerFired, woken, fibVars, ret, retFrom, log, fnCtx,
                   lastRes, allRetryable>>

\* Variant: the wait also precedes the first attempt.
MustSleepAlways(it) == it >= 0

\* retry.go line 49: if iteration > 0
MustSleep(it) == it > 0

\* Variant: the delay is asked for the iteration after this one.
DelayArgNext(it) == it + 1

\* retry.go line 50: the argument of delay(iteration)
DelayArg(it) == it

\* retry.go lines 49-54: on a retry, sleepDuration := delay(iteration) and the
\* operands of the select are evaluated, which starts the timer; on the first
\* iteration the function is called at once.
Sleep ==
    /\ pc = "body"
    /\ IF MustSleep(iteration)
       THEN LET it == DelayArg(iteration)
                d == DelayValue(delay, it, beforePrevious, previous)
                st == DelayState(delay, it, beforePrevious, previous)
            IN /\ sleepDuration' = d
               /\ beforePrevious' = st[1]
               /\ previous' = st[2]
               /\ log' = LogAppend(log, DelayEvent(it, d))
               /\ timerFired' = FALSE
               /\ woken' = "none"
               /\ pc' = "select"
       ELSE /\ pc' = "call"
            /\ UNCHANGED <<sleepDuration, fibVars, log, timerFired, woken>>
    /\ UNCHANGED <<params, ctx, ctxErr, lastError, iteration, ret, retFrom,
                   fnCtx, lastRes, allRetryable>>

\* retry.go lines 52-53: return ctx.Err()
ReturnCtxErr ==
    /\ pc' = "done"
    /\ ret' = CtxErrValue
    /\ retFrom' = "cancel"
    /\ UNCHANGED <<params, ctx, ctxErr, lastError, iteration, sleepDuration,
                   timerFired, woken, fibVars, log, fnCtx, lastRes, allRetryable>>

\* retry.go lines 54-55: break out of the select, on to the call of fn.
TimerBreak ==
    /\ pc' = "call"
    /\ UNCHANGED <<params, ctx, ctxErr, lastError, iteration, sleepDuration,
                   timerFired, woken, fibVars, ret, retFrom, log, fnCtx,
                   lastRes, allRetryable>>

\* Variant: a select that finds ctx.Done() ready goes on to the call of fn.
SelectDoneBreaks ==
    /\ pc = "select"
    /\ CtxDone
    /\ TimerBreak

\* retry.go lines 51-53: the select finds ctx.Done() ready and chooses it.
\* When the timer's channel is ready too, a select chooses among the ready
\* cases at random, so SelectTimer is enabled in the same state.
SelectDone ==
    /\ pc = "select"
    /\ CtxDone
    /\ ReturnCtxErr

\* retry.go lines 51, 54-55: the select finds the timer's channel ready and
\* chooses it.
SelectTimer ==
    /\ pc = "select"
    /\ timerFired
    /\ TimerBreak

\* retry.go line 51: no case is ready, the select blocks.
SelectBlock ==
    /\ pc = "select"
    /\ ~CtxDone
    /\ ~timerFired
    /\ pc' = "parked"
    /\ UNCHANGED <<params, ctx, ctxErr, lastError, iteration, sleepDuration,
                   timerFired, woken, fibVars, ret, retFrom, log, fnCtx,
                   lastRes, allRetryable>>

\* Variant: a select woken by ctx.Done() goes on to the call of fn.
WakeDoneIgnored ==
    /\ pc = "parked"
    /\ woken = "done"
    /\ TimerBreak

\* retry.go lines 52-53: the blocked select was woken by ctx.Done().
WakeDone ==
    /\ pc = "parked"
    /\ woken = "done"
    /\ ReturnCtxErr

\* retry.go lines 54-55: the blocked select was woken by the timer.
WakeTimer ==
    /\ pc = "parked"
    /\ woken = "timer"
    /\ TimerBreak

\* What fn may return.  An fn of kind "any" returns nil, a plain error (its
\* own, or the reason of the context it was given once that is done), or a
\* retryable error wrapping nil, a plain error or another retryable error.
\* An fn of kind "failing" returns a retryable error at every call.
FnResults ==
    LET inner == PlainErrs \cup {Nil, RetryErr(<<"e1">>)}
        plain == PlainErrs \cup (IF CtxDone THEN {ctxErr} ELSE {})
    IN IF fnKind = "failing" THEN {RetryErr(e) : e \in PlainErrs}
       ELSE {Nil} \cup plain
              \cup (IF iteration < MaxIter THEN {RetryErr(e) : e \in inner} ELSE {})

\* Variant: only the first error is recorded.
RecordErrFirstOnly(err, last) == IF err # Nil /\ last = Nil THEN err ELSE last

\* retry.go lines 62-64: if err != nil { lastError = err }
RecordErr(err, last) == IF err # Nil THEN err ELSE last

\* retry.go lines 60-72: err := fn(ctx), its classification, and either
\* continue (with the for statement's iteration++) or return err.
Invoke ==
    /\ pc = "call"
    /\ \E err \in FnResults :
         LET shouldRetry == isErrRetryable(err)
         IN /\ log' = LogAppend(log, FnEvent(iteration))
            /\ fnCtx' = fnCtx \cup {ctx}
            /\ lastRes' = err
            /\ allRetryable' = (allRetryable /\ IsRetryableErrType(err))
            /\ lastError' = RecordErr(err, lastError)
            /\ IF shouldRetry
               THEN /\ iteration' = NextIteration(iteration)
                    /\ pc' = "cond"
                    /\ UNCHANGED <<ret, retFrom>>
               ELSE /\ pc' = "done"
                    /\ ret' = err
                    /\ retFrom' = "result"
                    /\ UNCHANGED iteration
    /\ UNCHANGED <<params, ctx, ctxErr, sleepDuration, timerFired, woken, fibVars>>

\* Variant: the retryable wrapper is not stripped.
ExhaustedResultWrapped(last) == IF last = Nil THEN ErrTooManyRetries ELSE last

\* retry.go lines 77-82: the value of lastError that line 83 returns.
ExhaustedResult(last) ==
    IF last = Nil THEN ErrTooManyRetries
    ELSE IF IsRetryableErrType(last) THEN WrappedErr(last)
    ELSE last

\* retry.go lines 76-83: the loop's condition failed.
Exhaust ==
    /\ pc = "exhausted"
    /\ lastError' = ExhaustedResult(lastError)
    /\ ret' = lastError'
    /\ retFrom' = "exhaust"
    /\ pc' = "done"
    /\ UNCHANGED <<params, ctx, ctxErr, iteration, sleepDuration, timerFired,
                   woken, fibVars, log, fnCtx, lastRes, allRetryable>>

Next ==
    \/ Cancel
    \/ TimerFire
    \/ Enter
    \/ LoopCond
    \/ Sleep
    \/ SelectDone
    \/ SelectTimer
    \/ SelectBlock
    \/ WakeDone
    \/ WakeTimer
    \/ Invoke
    \/ Exhaust

Spec == Init /\ [][Next]_vars

\* ------------------------------------------------- Fibonacci on its own
\* A fresh Fibonacci(base) called with iterations 1, 2, 3, ... in order.
InitFib ==
    /\ retryLimit = 0
    /\ delay \in {Fibonacci(b) : b \in 0 .. MaxBase}
    /\ ctxArg = "nil"
    /\ fnKind = "any"
    /\ ctx = "nil"
    /\ ctxErr = Nil
    /\ lastError = Nil
    /\ iteration = 0
    /\ sleepDuration = 0
    /\ timerFired = FALSE
    /\ woken = "none"
    /\ beforePrevious = 1
    /\ previous = 1
    /\ pc = "fib"
    /\ ret = Nil
    /\ retFrom = "none"
    /\ log = << >>
    /\ fnCtx = {}
    /\ lastRes = Nil
    /\ allRetryable = TRUE
    /\ priorLog = << >>
    /\ runs = << >>

\* delay.go lines 62-64: one call of the closure Fibonacci returned.
FibCall ==
    /\ pc = "fib"
    /\ iteration < MaxFibCalls
    /\ LET it == iteration + 1
           d == DelayValue(delay, it, beforePrevious, previous)
           st == DelayState(delay, it, beforePrevious, previous)
       IN /\ iteration' = it
          /\ sleepDuration' = d
          /\ beforePrevious' = st[1]
          /\ previous' = st[2]
          /\ log' = Append(log, DelayEvent(it, d))
    /\ UNCHANGED <<params, ctx, ctxErr, lastError, timerFired, woken, pc, ret,
                   retFrom, fnCtx, lastRes, allRetryable>>

NextFib == FibCall

SpecFib == InitFib /\ [][NextFib]_vars

\* ------------------------------------------------------------ claims
LastEvent == log[Len(log)]

\* C1: with a retry budget B >= 0, fn is called at most B+1 times, and
\* exactly B+1 times in a finished run whose every call returned a
\* retryable error and whose token never fired.
C1_AttemptsWithinBudget ==
    retryLimit >= 0 =>
        /\ Calls <= retryLimit + 1
        /\ (pc = "done" /\ allRetryable /\ ctxErr = Nil => Calls = retryLimit + 1)

C1_Witness ==
    /\ pc = "done" /\ allRetryable /\ ctxErr = Nil
    /\ retryLimit = 2 /\ Calls = 3

C1_WitnessBudgetZero ==
    /\ pc = "done" /\ allRetryable /\ ctxErr = Nil
    /\ retryLimit = 0 /\ Calls = 1 /\ Consults = 0

\* C2: a run with a finite budget that ends by exhaustion (every call
\* returned a retryable error, the token never fired) returns the error
\* wrapped by the retryable error of the most recent call of fn: not the
\* wrapper, and not what an earlier call wrapped.
C2_ExhaustionReturnsLastInner ==
    /\ (pc = "done" /\ retryLimit >= 0 /\ allRetryable /\ ctxErr = Nil =>
            /\ retFrom = "exhaust"
            /\ IsRetryableErrType(lastRes)
            /\ ret = WrappedErr(lastRes)
            /\ ret # lastRes)
    /\ (pc = "done" /\ retFrom = "exhaust" =>
            IsRetryableErrType(lastRes) /\ ret = WrappedErr(lastRes))

C2_Witness ==
    /\ pc = "done" /\ retFrom = "exhaust" /\ ctxErr = Nil
    /\ retryLimit = 1 /\ Calls = 2
    /\ lastRes = RetryErr(<<"e2">>) /\ ret = <<"e2">>

\* C3: when a call of fn returns a plain (non-retryable) error, Run returns
\* that value at once, for every budget and whatever was recorded before:
\* that call of fn is the last event of the run.
C3_PlainErrorReturnedAtOnce ==
    lastRes # Nil /\ ~IsRetryableErrType(lastRes) =>
        /\ pc = "done"
        /\ retFrom = "result"
        /\ ret = lastRes
        /\ LastEvent.ev = "fn"

C3_Witness ==
    /\ pc = "done" /\ lastRes = <<"e1">> /\ ret = <<"e1">>
    /\ retryLimit < 0 /\ Calls = 3 /\ Consults = 2

\* C4: calls of fn and of delay alternate, starting with fn; the j-th call
\* of delay has argument j and comes after the j-th call of fn; a run that
\* returns success after k calls of fn made k-1 calls of delay.
C4_Alternation ==
    /\ \A k \in 1 .. Len(log) :
          IF k % 2 = 1
          THEN log[k].ev = "fn" /\ log[k].arg = (k - 1) \div 2
          ELSE log[k].ev = "delay" /\ log[k].arg = k \div 2
    /\ (pc = "done" /\ retFrom = "result" /\ ret = Nil =>
            Len(log) = 2 * Calls - 1 /\ Consults = Calls - 1)

C4_Witness ==
    /\ pc = "done" /\ retFrom = "result" /\ ret = Nil
    /\ Calls = 3 /\ Consults = 2
    /\ log[2].arg = 1 /\ log[4].arg = 2

\* C5: when the token fires while the k-th wait is blocked and its timer has
\* not fired, Run returns the token's reason: fn has been called k times and
\* is not called again, and the recorded retryable error is not returned.
C5_CancelDuringWait ==
    woken = "done" =>
        /\ pc \in {"parked", "done"}
        /\ Calls = iteration
        /\ LastEvent = DelayEvent(iteration, sleepDuration)
        /\ (pc = "done" =>
                /\ retFrom = "cancel"
                /\ ret = ctxErr
                /\ ret \in CtxReasons
                /\ lastError # Nil
                /\ ret # WrappedErr(lastError))

C5_Witness ==
    /\ woken = "done" /\ pc = "done" /\ ~timerFired
    /\ retryLimit < 0 /\ iteration = 2 /\ Calls = 2

\* C6 as stated: whenever the token is done when the select of a wait is
\* decided, Run returns the token's reason, also when the timer is ready.
C6_CancelAlwaysWins ==
    [][pc = "select" /\ CtxDone /\ pc' # "select" =>
          pc' = "done" /\ retFrom' = "cancel" /\ ret' = ctxErr]_vars

\* C6, amended: whenever the token is done and the timer is not ready when
\* the select of a wait is decided, Run returns the token's reason and fn is
\* not called for that retry.
C6_CancelWinsUnlessTimerReady ==
    [][pc = "select" /\ CtxDone /\ ~timerFired /\ pc' # "select" =>
          /\ pc' = "done"
          /\ retFrom' = "cancel"
          /\ ret' = ctxErr
          /\ log' = log]_vars

C6_Witness ==
    /\ pc = "done" /\ retFrom = "cancel" /\ woken = "none" /\ ~timerFired
    /\ delay = NoDelay /\ Calls = 1

\* C7: a run called with a nil context gives fn a non-nil context on every
\* call, is never woken by Done() and never returns a context's reason.
C7_NilContext ==
    ctxArg = "nil" =>
        /\ fnCtx \subseteq {"Background"}
        /\ (pc # "start" => ctx = "Background")
        /\ woken # "done"
        /\ retFrom # "cancel"
        /\ ret \notin CtxReasons

C7_Witness ==
    /\ ctxArg = "nil" /\ pc = "done" /\ fnCtx = {"Background"}
    /\ Calls = 3 /\ timerFired

C9_UnlimitedNeverExhausts ==
    retryLimit < 0 =>
        /\ pc # "exhausted"
        /\ retFrom # "exhaust"
        /\ (pc = "done" /\ IsRetryableErrType(lastRes) => retFrom = "cancel")
        /\ (pc = "done" /\ retFrom = "result" => ret = lastRes)

C9_Witness ==
    /\ retryLimit < 0 /\ pc = "call" /\ iteration = MaxIter
    /\ Calls = MaxIter /\ allRetryable

\* The Fibonacci numbers: fib(1) = fib(2) = 1, fib(n) = fib(n-1) + fib(n-2).
RECURSIVE FibMath(_)
FibMath(n) == IF n <= 2 THEN 1 ELSE FibMath(n - 1) + FibMath(n - 2)

\* C10: a fresh Fibonacci(base) called with 1, 2, 3, ... in order returns
\* base * fib(i) at call i.
C10_FibonacciSequence ==
    /\ Len(log) = iteration
    /\ \A k \in 1 .. Len(log) :
          /\ log[k].ev = "delay"
          /\ log[k].arg = k
          /\ log[k].d = delay.base * FibMath(k)

C10_Witness ==
    /\ pc = "fib" /\ delay = Fibonacci(1) /\ Len(log) = 6
    /\ <<log[1].d, log[2].d, log[3].d, log[4].d, log[5].d, log[6].d>>
         = <<1, 1, 2, 3, 5, 8>>

\* ------------------------------------------- int64 arithmetic of durations
\* time.Duration is an int64 and Go's int is 64 bits wide; their arithmetic
\* wraps modulo 2^64.  A 64-bit word is the sequence of its 8 bytes, least
\* significant first, in two's complement.
WordBytes == 8

\* time.Second, in nanoseconds.
Second == 1000000000

RECURSIVE NatBytes(_, _)
NatBytes(n, k) == IF k = 0 THEN << >> ELSE <<n % 256>> \o NatBytes(n \div 256, k - 1)

\* The word of a number 0 <= n < 2^31.
W64(n) == NatBytes(n, WordBytes)

W64Zero == W64(0)

\* v < 0 as an int64.
W64IsNeg(v) == v[WordBytes] >= 128

RECURSIVE AddBytes(_, _, _)
AddBytes(a, b, carry) ==
    IF a = << >> THEN << >>
    ELSE LET t == Head(a) + Head(b) + carry
         IN <<t % 256>> \o AddBytes(Tail(a), Tail(b), t \div 256)

\* a + b
W64Add(a, b) == AddBytes(a, b, 0)

\* -a
W64Neg(a) == AddBytes([k \in 1 .. WordBytes |-> 255 - a[k]], W64Zero, 1)

RECURSIVE ScaleBytes(_, _, _)
ScaleBytes(a, x, carry) ==
    IF a = << >> THEN << >>
    ELSE LET t == Head(a) * x + carry
         IN <<t % 256>> \o ScaleBytes(Tail(a), x, t \div 256)

\* a * 256^n
ShiftBytes(a, n) == [k \in 1 .. WordBytes |-> IF k <= n THEN 0 ELSE a[k - n]]

RECURSIVE MulBytes(_, _, _)
MulBytes(a, b, n) ==
    IF n = WordBytes THEN W64Zero
    ELSE W64Add(ShiftBytes(ScaleBytes(a, b[n + 1], 0), n), MulBytes(a, b, n + 1))

\* a * b
W64Mul(a, b) == MulBytes(a, b, 0)

RECURSIVE Pow2(_)
Pow2(n) == IF n = 0 THEN 1 ELSE 2 * Pow2(n - 1)

\* 1 << n for n >= 0: a shift by the width or more gives 0.
W64Shl1(n) ==
    [k \in 1 .. WordBytes |-> IF n \div 8 = k - 1 THEN Pow2(n % 8) ELSE 0]

RECURSIVE DivBytes(_, _, _)
\* Long division of the bytes a[1..k] by x, most significant byte first.
DivBytes(a, x, k) ==
    IF k = 0 THEN [q |-> << >>, r |-> 0]
    ELSE LET hi == DivBytes(SubSeq(a, 2, Len(a)), x, k - 1)
             t == hi.r * 256 + Head(a)
         IN [q |-> <<t \div x>> \o hi.q, r |-> t % x]

\* a / x for a small x > 0, truncated toward zero as Go divides.
W64DivSmall(a, x) ==
    IF W64IsNeg(a) THEN W64Neg(DivBytes(W64Neg(a), x, WordBytes).q)
    ELSE DivBytes(a, x, WordBytes).q

\* a < b as int64 values.
RECURSIVE LessBytes(_, _, _)
LessBytes(a, b, k) ==
    IF k = 0 THEN FALSE
    ELSE IF a[k] # b[k] THEN a[k] < b[k]
    ELSE LessBytes(a, b, k - 1)

W64Less(a, b) ==
    IF W64IsNeg(a) # W64IsNeg(b) THEN W64IsNeg(a)
    ELSE LessBytes(a, b, WordBytes)

\* ------------------------------------- the delay strategies on durations
\* Number of calls made on one strategy in SpecDelay.
MaxDelayIter == 66

Exponential(base) == [kind |-> "Exponential", base |-> base]

\* delay.go lines 69-75: the closure of Rand holds the delay it wraps.
Rand(inner) == [kind |-> "Rand", inner |-> inner]

\* Variant: the sleep factor scales the base duration.
ExponentialValueOfBase(base, it) == W64Mul(W64(base), W64Shl1(it - 1))

\* delay.go lines 20-23: sleepFactor := 1 << (iteration - 1), and
\* time.Second * time.Duration(sleepFactor); base is not used.
ExponentialValue(base, it) == W64Mul(W64(Second), W64Shl1(it - 1))

\* delay.go lines 53-61 on Go's int.
fibResult64(it, bp, p) == IF it <= 2 THEN W64(1) ELSE W64Add(bp, p)

fibState64(it, bp, p) == IF it <= 2 THEN <<bp, p>> ELSE <<p, W64Add(bp, p)>>

\* delay(iteration) as a time.Duration, for the strategies that wrap none.
Duration64(s, it, bp, p) ==
    CASE s.kind = "Constant" -> W64(s.base)
      [] s.kind = "Linear" -> W64Mul(W64(s.base), W64(it))
      [] s.kind = "Exponential" -> ExponentialValue(s.base, it)
      [] s.kind = "Fibonacci" -> W64Mul(W64(s.base), fibResult64(it, bp, p))

\* delay.go lines 116-119: what randDuration(max) can return.  The factor
\* randFloatZeroToOne*2 - 1 lies in [-1, 1]; the model draws the two ends and
\* the middle of the range.
randDuration(max) == {W64Neg(max), W64Zero, max}

\* delay.go line 72: maxOffset := originalSleepDuration / 10
maxOffset(d) == W64DivSmall(d, 10)

\* delay.go lines 71-73: the values Rand's closure can return when the
\* delay it wraps returns d.
RandValues(d) == {W64Add(d, off) : off \in randDuration(maxOffset(d))}

Bases == {0, MaxBase, Second}

DelaysPlain ==
    UNION {{Constant(b), Linear(b), Exponential(b), Fibonacci(b)} : b \in Bases}

DelaysWrapped == {Rand(s) : s \in DelaysPlain}

\* A fresh strategy, called with iterations 1, 2, 3, ... in order as Run does.
InitDelay ==
    /\ retryLimit = -1
    /\ delay \in DelaysPlain \cup DelaysWrapped
    /\ ctxArg = "nil"
    /\ fnKind = "any"
    /\ ctx = "nil"
    /\ ctxErr = Nil
    /\ lastError = Nil
    /\ iteration = 0
    /\ sleepDuration = W64Zero
    /\ timerFired = FALSE
    /\ woken = "none"
    /\ beforePrevious = W64(1)
    /\ previous = W64(1)
    /\ pc = "delay"
    /\ ret = Nil
    /\ retFrom = "none"
    /\ log = << >>
    /\ fnCtx = {}
    /\ lastRes = Nil
    /\ allRetryable = TRUE
    /\ priorLog = << >>
    /\ runs = << >>

\* retry.go line 50 with delay.go: one call delay(iteration).  log keeps the
\* call's iteration and the duration the innermost strategy returned.
DelayCall ==
    /\ pc = "delay"
    /\ iteration < MaxDelayIter
    /\ LET it == iteration + 1
           s == IF delay.kind = "Rand" THEN delay.inner ELSE delay
           d == Duration64(s, it, beforePrevious, previous)
           st == IF s.kind = "Fibonacci"
                 THEN fibState64(it, beforePrevious, previous)
                 ELSE <<beforePrevious, previous>>
       IN /\ iteration' = it
          /\ sleepDuration' \in (IF delay.kind = "Rand" THEN RandValues(d) ELSE {d})
          /\ beforePrevious' = st[1]
          /\ previous' = st[2]
          /\ log' = <<DelayEvent(it, d)>>
    /\ UNCHANGED <<params, ctx, ctxErr, lastError, timerFired, woken, pc, ret,
                   retFrom, fnCtx, lastRes, allRetryable>>

NextDelay == DelayCall

SpecDelay == InitDelay /\ [][NextDelay]_vars

\* w doubled n times.
RECURSIVE Doubled(_, _)
Doubled(w, n) == IF n = 0 THEN w ELSE Doubled(W64Add(w, w), n - 1)

C12_NoNegativeDelay ==
    delay.kind # "Rand" => ~W64IsNeg(sleepDuration)

\* The duration Rand's inner delay returned at the last call.
InnerDuration == log[1].d

\* C13: Rand(inner)(i) lies within a tenth (by integer division) of the
\* duration d that inner returned: it equals d when 0 <= d < 10 and is not
\* negative when d >= 0.
C13_RandWithinTenth ==
    delay.kind = "Rand" /\ iteration >= 1 =>
        LET d == InnerDuration
            m == W64DivSmall(d, 10)
        IN ~W64IsNeg(d) =>
              /\ ~W64Less(sleepDuration, W64Add(d, W64Neg(m)))
              /\ ~W64Less(W64Add(d, m), sleepDuration)
              /\ (W64Less(d, W64(10)) => sleepDuration = d)
              /\ ~W64IsNeg(sleepDuration)

\* The run made one attempt only: its budget is 0 or its first result was
\* not retryable.
SingleAttempt ==
    retryLimit = 0 \/ (Calls = 1 /\ ~IsRetryableErrType(lastRes))

C20_NilOnlyAfterSuccess ==
    pc = "done" /\ ret = Nil => lastRes = Nil

\* ------------------------------------------------------------ progress
\* Runs of both kinds of fn.  A Fibonacci delay is left out where the run
\* need not end, as its captured variables would grow without bound.
InitLive ==
    /\ retryLimit \in Limits
    /\ delay \in Delays
    /\ ctxArg \in {"nil", "user"}
    /\ fnKind \in {"any", "failing"}
    /\ (fnKind = "failing" /\ retryLimit < 0 => delay.kind # "Fibonacci")
    /\ ctx = ctxArg
    /\ ctxErr = Nil
    /\ lastError = Nil
    /\ iteration = 0
    /\ sleepDuration = 0
    /\ timerFired = FALSE
    /\ woken = "none"
    /\ beforePrevious = 1
    /\ previous = 1
    /\ pc = "start"
    /\ ret = Nil
    /\ retFrom = "none"
    /\ log = << >>
    /\ fnCtx = {}
    /\ lastRes = Nil
    /\ allRetryable = TRUE
    /\ priorLog = << >>
    /\ runs = << >>

\* A step of the goroutine that executes Run, the calls of fn and delay
\* included.
RunStep ==
    \/ Enter
    \/ LoopCond
    \/ Sleep
    \/ SelectDone
    \/ SelectTimer
    \/ SelectBlock
    \/ WakeDone
    \/ WakeTimer
    \/ Invoke
    \/ Exhaust

\* The goroutine keeps running, every call of fn returns, and every timer
\* that was started fires.
SpecLive == InitLive /\ [][Next]_vars /\ WF_vars(RunStep) /\ WF_vars(TimerFire)

\* In addition the select is fair to the case of ctx.Done(): a case that is
\* ready again and again is chosen in the end.
SpecFair == SpecLive /\ SF_vars(SelectDone)

\* C15: with a finite non-negative budget Run returns in the end, whatever
\* fn returns, provided every call of fn returns and every wait's timer
\* fires or the token does.
C15_FiniteBudgetTerminates == (retryLimit >= 0) ~> (pc = "done")

C15_Witness ==
    /\ pc = "done" /\ fnKind = "failing" /\ retryLimit = MaxLimit
    /\ retFrom = "exhaust" /\ Calls = MaxLimit + 1 /\ ctxErr = Nil

\* An unlimited budget and an fn that returns a retryable error at every call.
Forever == retryLimit < 0 /\ fnKind = "failing"

\* C16: with an unlimited budget and an fn that keeps returning retryable
\* errors, the run returns the token's reason once the token has fired, and
\* does not return while the token is live.
C16_OnlyCancelEndsForeverRun ==
    /\ [](Forever /\ pc = "done" =>
            retFrom = "cancel" /\ ctxErr \in CtxReasons /\ ret = ctxErr)
    /\ [](Forever /\ ctxErr = Nil => pc # "done")
    /\ ((Forever /\ ctxErr # Nil) ~> (pc = "done"))

C16_Witness ==
    /\ Forever /\ pc = "done" /\ retFrom = "cancel" /\ ret = ctxErr
    /\ iteration = MaxIter /\ timerFired /\ woken = "none"

\* ------------------------------------- one Fibonacci delay, two runs
InitReuse ==
    /\ retryLimit \in Limits
    /\ delay \in {Fibonacci(b) : b \in {0, 1, MaxBase}}
    /\ ctxArg \in {"nil", "user"}
    /\ fnKind = "any"
    /\ ctx = ctxArg
    /\ ctxErr = Nil
    /\ lastError = Nil
    /\ iteration = 0
    /\ sleepDuration = 0
    /\ timerFired = FALSE
    /\ woken = "none"
    /\ beforePrevious = 1
    /\ previous = 1
    /\ pc = "start"
    /\ ret = Nil
    /\ retFrom = "none"
    /\ log = << >>
    /\ fnCtx = {}
    /\ lastRes = Nil
    /\ allRetryable = TRUE
    /\ priorLog = << >>
    /\ runs = << >>

\* The caller calls Run a second time with the same arguments, a live
\* context and the delay value the first run used: the variables the
\* Fibonacci closure captured (delay.go line 52) are those the first run left.
RunAgain ==
    /\ pc = "done"
    /\ priorLog = << >>
    /\ priorLog' = log
    /\ ctx' = ctxArg
    /\ ctxErr' = Nil
    /\ lastError' = Nil
    /\ iteration' = 0
    /\ sleepDuration' = 0
    /\ timerFired' = FALSE
    /\ woken' = "none"
    /\ pc' = "start"
    /\ ret' = Nil
    /\ retFrom' = "none"
    /\ log' = << >>
    /\ fnCtx' = {}
    /\ lastRes' = Nil
    /\ allRetryable' = TRUE
    /\ UNCHANGED <<retryLimit, delay, ctxArg, fnKind, fibVars, runs>>

NextReuse == Next \/ RunAgain

SpecReuse == InitReuse /\ [][NextReuse]_vars

\* The calls of delay with iteration 3 or more that the earlier run made.
PriorAdvances ==
    Cardinality({k \in 1 .. Len(priorLog) :
                    priorLog[k].ev = "delay" /\ priorLog[k].arg >= 3})

\* C17 as stated: in a second run on a Fibonacci instance that an earlier
\* run called with iteration 3 or more, iterations 1 and 2 give base and
\* the delays of iterations 3 and up are not base * fib(i).
C17_SecondRunOffSequence ==
    PriorAdvances >= 1 =>
        \A k \in 1 .. Len(log) :
            log[k].ev = "delay" =>
                IF log[k].arg <= 2 THEN log[k].d = delay.base
                ELSE log[k].d # delay.base * FibMath(log[k].arg)

\* C17, amended: the same for a base that is not 0, and the delay of
\* iteration i >= 3 is base * fib(i + n) after an earlier run that made n
\* calls with iteration 3 or more: the sequence goes on where it stopped.
C17_SecondRunContinuesSequence ==
    PriorAdvances >= 1 =>
        \A k \in 1 .. Len(log) :
            log[k].ev = "delay" =>
                IF log[k].arg <= 2 THEN log[k].d = delay.base
                ELSE /\ log[k].d = delay.base * FibMath(log[k].arg + PriorAdvances)
                     /\ (delay.base # 0 =>
                            log[k].d # delay.base * FibMath(log[k].arg))

C17_Witness ==
    /\ PriorAdvances = 2 /\ delay = Fibonacci(1) /\ pc = "done"
    /\ Len(log) >= 6
    /\ log[2] = DelayEvent(1, 1) /\ log[4] = DelayEvent(2, 1)
    /\ log[6] = DelayEvent(3, 5)

\* ------------------------------------------- two concurrent calls of Run
\* Two goroutines call Run with the same context, each with its own limit
\* and its own fn; fn of goroutine g builds the error ErrOf(g).
Goroutines == {"a", "b"}
ErrOf(g) == IF g = "a" THEN <<"e1">> ELSE <<"e2">>

\* Variant: lastError is one package-level variable.
ErrCellShared(g) == "a"

\* retry.go line 43: var lastError error is a local of the call.
ErrCell(g) == g

FnInput(err) == [in |-> "fn", v |-> err]
TimerInput == [in |-> "timer", v |-> Nil]
CancelInput(reason) == [in |-> "cancel", v |-> reason]

InitConc ==
    /\ retryLimit = 0
    /\ delay = NoDelay
    /\ ctxArg = "user"
    /\ fnKind = "any"
    /\ ctx = "user"
    /\ ctxErr = Nil
    /\ lastError = Nil
    /\ iteration = 0
    /\ sleepDuration = 0
    /\ timerFired = FALSE
    /\ woken = "none"
    /\ beforePrevious = 1
    /\ previous = 1
    /\ pc = "conc"
    /\ ret = Nil
    /\ retFrom = "none"
    /\ log = << >>
    /\ fnCtx = {}
    /\ lastRes = Nil
    /\ allRetryable = TRUE
    /\ priorLog = << >>
    /\ \E lim \in [Goroutines -> Limits] :
          runs = [limit     |-> lim,
                  pc        |-> [g \in Goroutines |-> "loop"],
                  iteration |-> [g \in Goroutines |-> 0],
                  lastError |-> [g \in Goroutines |-> Nil],
                  calls     |-> [g \in Goroutines |-> 0],
                  ret       |-> [g \in Goroutines |-> Nil],
                  hist      |-> [g \in Goroutines |-> << >>]]

concFixed == <<retryLimit, delay, ctxArg, fnKind, priorLog, ctx, lastError,
               iteration, sleepDuration, timerFired, woken, fibVars, pc, ret,
               retFrom, log, fnCtx, lastRes, allRetryable>>

\* The context both calls were given is cancelled or reaches its deadline.
ConcCancel ==
    /\ pc = "conc"
    /\ ctxErr = Nil
    /\ \E g \in Goroutines : runs.pc[g] # "done"
    /\ \E reason \in CtxReasons : ctxErr' = reason
    /\ UNCHANGED <<concFixed, runs>>

\* retry.go lines 46-49 and 76-83 in goroutine g: the loop's condition,
\* then either the test of iteration > 0 or the return after the loop.
ConcLoop(g) ==
    /\ pc = "conc"
    /\ runs.pc[g] = "loop"
    /\ runs' =
         IF LoopTest(runs.iteration[g], runs.limit[g])
         THEN [runs EXCEPT !.pc[g] = IF MustSleep(runs.iteration[g])
                                     THEN "wait" ELSE "call"]
         ELSE [runs EXCEPT !.pc[g] = "done",
                           !.ret[g] = ExhaustedResult(runs.lastError[ErrCell(g)])]
    /\ UNCHANGED <<concFixed, ctxErr>>

\* retry.go lines 50-56 in goroutine g: the select returns ctx.Err() when
\* it takes the Done case and goes on to the call when it takes the timer.
ConcWait(g) ==
    /\ pc = "conc"
    /\ runs.pc[g] = "wait"
    /\ \/ runs' = [runs EXCEPT !.pc[g] = "call",
                               !.hist[g] = Append(@, TimerInput)]
       \/ /\ ctxErr # Nil
          /\ runs' = [runs EXCEPT !.pc[g] = "done",
                                  !.ret[g] = ctxErr,
                                  !.hist[g] = Append(@, CancelInput(ctxErr))]
    /\ UNCHANGED <<concFixed, ctxErr>>

\* What fn of goroutine g can return.
ConcResults(g) ==
    {Nil, ErrOf(g)}
        \cup (IF ctxErr # Nil THEN {ctxErr} ELSE {})
        \cup (IF runs.iteration[g] < MaxIter THEN {RetryErr(ErrOf(g))} ELSE {})

\* retry.go lines 60-72 in goroutine g.
ConcCall(g) ==
    /\ pc = "conc"
    /\ runs.pc[g] = "call"
    /\ \E err \in ConcResults(g) :
          runs' =
            IF isErrRetryable(err)
            THEN [runs EXCEPT
                    !.lastError[ErrCell(g)] = RecordErr(err, @),
                    !.calls[g] = @ + 1,
                    !.hist[g] = Append(@, FnInput(err)),
                    !.iteration[g] = NextIteration(@),
                    !.pc[g] = "loop"]
            ELSE [runs EXCEPT
                    !.lastError[ErrCell(g)] = RecordErr(err, @),
                    !.calls[g] = @ + 1,
                    !.hist[g] = Append(@, FnInput(err)),
                    !.ret[g] = err,
                    !.pc[g] = "done"]
    /\ UNCHANGED <<concFixed, ctxErr>>

NextConc ==
    \/ ConcCancel
    \/ \E g \in Goroutines : ConcLoop(g)
    \/ \E g \in Goroutines : ConcWait(g)
    \/ \E g \in Goroutines : ConcCall(g)

SpecConc == InitConc /\ [][NextConc]_vars

\* retry.go lines 43-83 executed by one goroutine on its own: the locals of
\* Run after it has taken the results of fn and the outcomes of the select
\* listed in h, starting from iteration it, lastError last and n calls.
RECURSIVE RunAlone(_, _, _, _, _)
RunAlone(limit, it, last, n, h) ==
    LET at(done, r) == [iteration |-> it, lastError |-> last, calls |-> n,
                        done |-> done, ret |-> r]
        h2 == IF MustSleep(it) /\ h # << >> THEN Tail(h) ELSE h
    IN IF ~LoopTest(it, limit) THEN at(TRUE, ExhaustedResult(last))
       ELSE IF MustSleep(it) /\ h = << >> THEN at(FALSE, Nil)
       ELSE IF MustSleep(it) /\ Head(h).in = "cancel" THEN at(TRUE, Head(h).v)
       ELSE IF h2 = << >> THEN at(FALSE, Nil)
       ELSE IF isErrRetryable(Head(h2).v)
            THEN RunAlone(limit, NextIteration(it), RecordErr(Head(h2).v, last),
                          n + 1, Tail(h2))
            ELSE [iteration |-> it, lastError |-> RecordErr(Head(h2).v, last),
                  calls |-> n + 1, done |-> TRUE, ret |-> Head(h2).v]

\* C18: under every interleaving, each call's iteration counter, recorded
\* last error, number of calls of fn and returned result are those of the
\* same call executing alone with the same results of fn and the same
\* outcomes of its waits.
C18_RunsIndependent ==
    pc = "conc" =>
        \A g \in Goroutines :
            LET alone == RunAlone(runs.limit[g], 0, Nil, 0, runs.hist[g])
            IN /\ runs.iteration[g] = alone.iteration
               /\ runs.lastError[g] = alone.lastError
               /\ runs.calls[g] = alone.calls
               /\ (runs.pc[g] = "done" =>
                      alone.done /\ runs.ret[g] = alone.ret)

C18_Witness ==
    /\ pc = "conc"
    /\ runs.pc["a"] = "done" /\ runs.iteration["a"] = 1
    /\ runs.ret["a"] \in CtxReasons /\ runs.lastError["a"] = RetryErr(<<"e1">>)
    /\ runs.pc["b"] = "wait" /\ runs.iteration["b"] = 2
    /\ runs.lastError["b"] = RetryErr(<<"e2">>) /\ runs.calls["b"] = 2

====
